---- MODULE Spec2Model ----
(***************************************************************************)
(* Model of src/src/cli/render_360_directory.py: the turntable render      *)
(* orchestrator (content-hash file naming, scene set-up, the 36-frame      *)
(* render loop with skip-if-exists caching, and the directory batch).      *)
(*                                                                         *)
(* A file name is the sequence of its dot-separated parts:                 *)
(* "a.stl" is <<"a","stl">>, "h1.stl.new" is <<"h1","stl","new">>.         *)
(* A file content is a number; its MD5 digest is the string Md5(c).        *)
(***************************************************************************)
EXTENDS Naturals, Integers, Sequences, FiniteSets, TLC

(* ---------------------------- bounds ---------------------------------- *)

\* program runs (invocations of main) in one behaviour
MaxRuns == 2
\* injected environment faults (filesystem errors, renderer errors)
MaxFaults == 1
\* depth at which the interpreter raises RecursionError
RecursionLimit == 4

(* ------------------------ program constants --------------------------- *)

\* steps = 36
steps == 36
\* 360 degrees of the turntable
FullTurn == 360

(* ------------------------- pure functions ----------------------------- *)

\* calculate_md5: the hex digest of a content (distinct contents, distinct digests)
Md5(c) == "h" \o ToString(c)

\* os.path.splitext(name)[0]
Base(n) == IF Len(n) > 1 THEN SubSeq(n, 1, Len(n) - 1) ELSE n

\* os.path.splitext(name)[1], as a (possibly empty) sequence of parts
Ext(n) == IF Len(n) > 1 THEN <<n[Len(n)]>> ELSE <<>>

\* str.lower on a name part
Lower(t) == CASE t = "STL" -> "stl" [] t = "GLB" -> "glb" [] OTHER -> t

\* NameIsHash with the whole file name compared (splitext forgotten)
NameIsHash_WholeName(n, h) == n = <<h>>

\* current_name != md5_hash, negated (line 33)
NameIsHash(n, h) == Base(n) = <<h>>

\* new_filename = f"{md5_hash}{splitext(file_path)[1]}" (line 34)
TargetName(n, h) == <<h>> \o Ext(n)

\* ConflictName without the suffix: the source takes the target name itself
ConflictName_Target(t) == t

\* f"{new_filename}.new" (line 51)
ConflictName(t) == t \o <<"new">>

\* os.rename on a POSIX filesystem: replaces an existing destination
Rename(fs, src, dst) ==
    IF src = dst THEN fs
    ELSE [p \in (DOMAIN fs \ {src}) \cup {dst} |-> IF p = dst THEN fs[src] ELSE fs[p]]

\* os.remove
Remove(fs, p) == [q \in DOMAIN fs \ {p} |-> fs[q]]

\* filename.lower().endswith(('.glb', '.stl')) (line 309)
Supported(n) == Len(n) > 1 /\ Lower(n[Len(n)]) \in {"glb", "stl"}

\* round(x) of the rational num/den, ties to even, as Python 3 rounds
Round(num, den) ==
    LET q == num \div den
        r == num % den
    IN  IF 2 * r < den THEN q
        ELSE IF 2 * r > den THEN q + 1
        ELSE IF q % 2 = 0 THEN q ELSE q + 1

\* angle = round((360 / steps) * i) (line 261)
Angle(k) == Round(FullTurn * k, steps)

\* the angle is formatted with two digits, the hundreds dropped
Pad3_TwoDigits(a) == <<(a \div 10) % 10, a % 10>>

\* f"{angle:03d}": the decimal digits, zero-padded to at least three
Pad3(a) ==
    IF a < 1000 THEN <<a \div 100, (a \div 10) % 10, a % 10>>
    ELSE <<a \div 1000, (a \div 100) % 10, (a \div 10) % 10, a % 10>>

\* file_path_render = renders/<model_name>_<angle:03d>.png (lines 262-263);
\* m is the model name as name parts
FramePath(m, a) == <<m, Pad3(a), "png">>

\* the permutations of a finite set, as sequences
Perms(S) ==
    {s \in [1..Cardinality(S) -> S] : \A a, b \in 1..Cardinality(S) : s[a] = s[b] => a = b}

(* ----------------------------- state ---------------------------------- *)

VARIABLES
    files,          \* the model directory: file name -> content
    frames,         \* renders/: frame path -> [fresh, whole]
    pc,             \* where the program is
    runs,           \* runs started so far
    status,         \* exit status of the last finished run
    faults,         \* environment faults injected so far
    caller,         \* "main" or "dir": who called process_file
    queue,          \* supported_files still to process
    found,          \* len(supported_files)
    processed,      \* process_directory's processed
    skipped,        \* process_directory's skipped
    file_path,      \* process_file's file_path
    depth,          \* nested process_file invocations
    result,         \* what the outermost process_file gave: true/false/raised
    scene,          \* the scene graph: set of <<kind, content>>
    pivot,          \* Rotation_Pivot's Z rotation in degrees (-1: no pivot)
    evaluated,      \* the pivot rotation the view layer was last updated to
    model_name,     \* model_name (line 253)
    i,              \* loop index of the render loop
    total_rendered, \* total_rendered
    skipped_files,  \* skipped_files
    \* history variables: what happened, kept to state the properties
    listing,        \* supported_files as enumerated by this run
    dir0,           \* history: the directory as this run's listing found it
    called,         \* paths process_directory has called process_file on
    done,           \* the finished process_file calls of this run
    ends,           \* how each name check of this run ended
    input_path,     \* path given to the outermost process_file
    input_content,  \* content of that file at the call
    muts,           \* renames and deletes of the current call
    kept,           \* files found at the target name with other content, this call
    again,          \* the current call was given a path an earlier name check ended on
    entry,          \* the directory and renders/ when the current call was made
    resets,         \* scene resets of the current call
    imports,        \* the scene at each import call of the current call
    calls,          \* frame indices the current call issued a render call for
    frames0,        \* renders/ when the current call's render loop began
    rerun,          \* the current call's model was rendered to success before
    failed,         \* the frames whose render call raised in this call
    canon,          \* paths on which a name check ended with name = hash
    complete,       \* model names process_file has returned True for
    summary,        \* the last finished run
    oks,            \* frame path -> successful render calls that wrote it, all runs
    \* the geometry of the model in the scene (lines 105-170)
    gpc,            \* "none", "imported", "normalized" or "framed"
    mesh_objects,   \* mesh_objects: sequence of [location, parent, vertices]
    all_coords,     \* all_coords of the model as imported
    center,         \* center
    max_dim,        \* max_dim before the rescaling
    camera_distance,\* camera_distance, a fraction <<numerator, denominator>>
    prev            \* max_dim and camera_distance of the model framed before

diskVars == <<files, frames, oks>>
dirVars == <<queue, found, processed, skipped, listing, dir0, called>>
callVars == <<file_path, depth, input_path, input_content, muts, kept, again, entry,
              resets, imports>>
sceneVars == <<scene, pivot, evaluated>>
loopVars == <<model_name, i, total_rendered, skipped_files, calls, frames0, rerun,
              failed>>
histVars == <<canon, complete, summary>>
geomVars == <<gpc, mesh_objects, all_coords, center, max_dim, camera_distance, prev>>

mainVars == <<diskVars, pc, runs, status, faults, caller, dirVars, callVars, result,
          sceneVars, loopVars, done, ends, histVars>>

vars == <<mainVars, geomVars>>

\* a path at which nothing exists
MissingPath == <<"missing", "stl">>
NoName == <<>>

\* file names of the directories explored
A_stl == <<"a", "stl">>
B_stl == <<"b", "stl">>
A_GLB == <<"a", "GLB">>
C_txt == <<"c", "txt">>
H1_stl == <<Md5(1), "stl">>
H1_stl_new == <<Md5(1), "stl", "new">>
H1_new == <<Md5(1), "new">>

\* the directories explored (file name :> content), one per case the name
\* check, the format check and the batch loop distinguish
InitDirs ==
    { <<>>,                                          \* empty directory
      (A_stl :> 1),                                  \* a name that is not the hash
      (A_stl :> 2),                                  \* the same, no frame in renders/
      (H1_stl :> 1),                                 \* a name that is the hash
      (C_txt :> 1),                                  \* an unsupported format
      (A_stl :> 1) @@ (B_stl :> 1),                  \* identical content, same extension
      (A_stl :> 1) @@ (A_GLB :> 1),                  \* identical content, other extension
      (A_stl :> 1) @@ (H1_stl :> 1),                 \* duplicate of the hash-named file
      (A_stl :> 1) @@ (H1_stl :> 2),                 \* hash name taken by other content
      (H1_stl_new :> 1) @@ (H1_new :> 2),            \* conflict names taken twice
      (A_stl :> 1) @@ (H1_stl :> 2) @@ (H1_stl_new :> 3),  \* conflict name taken
      (A_stl :> 1) @@ (H1_stl :> 2) @@ (H1_new :> 2),      \* both conflict names taken
      (A_GLB :> 1) @@ (B_stl :> 2) @@ (C_txt :> 2) } \* two models and another file

\* the frames of content 1 that renders/ holds at the start; content 2 has none
PreIndices == {1, steps - 1}

\* a frame file found at the start: written by an earlier process
PreFrame == [fresh |-> FALSE, whole |-> TRUE]

\* no run has finished yet
NoSummary == [dir |-> FALSE, found |-> 0, called |-> 0, processed |-> 0, skipped |-> 0]

\* the memory of a process that has not called anything yet
\* no call of process_file has been made
NoEntry == [files |-> <<>>, frames |-> <<>>]

\* no model is in the scene
NoFraming == [max_dim |-> 0, camera_distance |-> <<0, 1>>]

NoGeometry ==
    /\ gpc = "none"
    /\ mesh_objects = <<>>
    /\ all_coords = {}
    /\ center = <<0, 0>>
    /\ max_dim = 0
    /\ camera_distance = <<0, 1>>
    /\ prev = NoFraming

FreshProcess ==
    /\ caller = "main"
    /\ queue = <<>>
    /\ found = 0
    /\ processed = 0
    /\ skipped = 0
    /\ listing = <<>>
    /\ dir0 = <<>>
    /\ called = <<>>
    /\ file_path = NoName
    /\ depth = 0
    /\ result = "none"
    /\ scene = {}
    /\ pivot = -1
    /\ evaluated = -1
    /\ model_name = NoName
    /\ i = 0
    /\ total_rendered = 0
    /\ skipped_files = 0
    /\ done = <<>>
    /\ ends = {}
    /\ input_path = NoName
    /\ input_content = 0
    /\ muts = 0
    /\ kept = {}
    /\ again = FALSE
    /\ entry = NoEntry
    /\ resets = 0
    /\ imports = <<>>
    /\ calls = {}
    /\ frames0 = <<>>
    /\ rerun = FALSE
    /\ failed = {}

Init ==
    /\ files \in InitDirs
    /\ frames = [p \in {FramePath(<<Md5(1)>>, Angle(k)) : k \in PreIndices} |-> PreFrame]
    /\ pc = "idle"
    /\ runs = 0
    /\ status = 0
    /\ faults = 0
    /\ FreshProcess
    /\ canon = {}
    /\ complete = {}
    /\ summary = NoSummary
    /\ oks = <<>>
    /\ NoGeometry

(* ------------------------------ main ---------------------------------- *)

\* renders/ as the next process finds it: nothing in it is fresh any more
Aged(fr) == [p \in DOMAIN fr |-> [fr[p] EXCEPT !.fresh = FALSE]]

\* the process ends with exit status st: its memory (scene, counters, and the
\* history kept of it) is gone, the filesystem stays
ExitProcess(st) ==
    /\ pc' = "idle"
    /\ status' = st
    /\ frames' = Aged(frames)
    /\ caller' = "main"
    /\ queue' = <<>>
    /\ found' = 0
    /\ processed' = 0
    /\ skipped' = 0
    /\ listing' = <<>>
    /\ dir0' = <<>>
    /\ called' = <<>>
    /\ file_path' = NoName
    /\ depth' = 0
    /\ result' = "none"
    /\ scene' = {}
    /\ pivot' = -1
    /\ evaluated' = -1
    /\ model_name' = NoName
    /\ i' = 0
    /\ total_rendered' = 0
    /\ skipped_files' = 0
    /\ done' = <<>>
    /\ ends' = {}
    /\ input_path' = NoName
    /\ input_content' = 0
    /\ muts' = 0
    /\ kept' = {}
    /\ again' = FALSE
    /\ entry' = NoEntry
    /\ resets' = 0
    /\ imports' = <<>>
    /\ calls' = {}
    /\ frames0' = <<>>
    /\ rerun' = FALSE
    /\ failed' = {}
    /\ summary' = [dir |-> caller = "dir", found |-> found, called |-> Len(called),
                   processed |-> processed, skipped |-> skipped]
    /\ UNCHANGED <<files, faults, canon, complete, oks>>

\* the call process_file(p) made by main or by process_directory
CallProcessFile(p, who) ==
    /\ pc' = "resolve"
    /\ caller' = who
    /\ file_path' = p
    /\ depth' = 1
    /\ result' = "none"
    /\ input_path' = p
    /\ input_content' = IF p \in DOMAIN files THEN files[p] ELSE 0
    /\ muts' = 0
    /\ kept' = {}
    /\ again' = (p \in canon)
    /\ entry' = [files |-> files, frames |-> frames]
    /\ resets' = 0
    /\ imports' = <<>>

\* the supported files of the directory (lines 307-312)
SupportedFiles == {n \in DOMAIN files : Supported(n)}

\* main() on a directory: process_directory up to its loop (lines 342-351,
\* 296-322); with no supported file it returns at once (lines 314-316)
MainDirectory ==
    /\ UNCHANGED geomVars
    /\ pc = "idle"
    /\ runs < MaxRuns
    /\ runs' = runs + 1
    /\ IF SupportedFiles = {}
       THEN ExitProcess(0)
       ELSE /\ \E order \in Perms(SupportedFiles) :
                  /\ queue' = order
                  /\ listing' = order
                  /\ found' = Len(order)
            /\ dir0' = files
            /\ pc' = "batch"
            /\ caller' = "dir"
            /\ UNCHANGED <<diskVars, status, faults, processed, skipped, called, callVars,
                           result, sceneVars, loopVars, done, ends, histVars>>

\* main() on a file: process_file(input_path) (lines 352-353)
MainFile ==
    /\ UNCHANGED geomVars
    /\ pc = "idle"
    /\ runs < MaxRuns
    /\ runs' = runs + 1
    /\ \E p \in DOMAIN files : CallProcessFile(p, "main")
    /\ UNCHANGED <<diskVars, status, faults, dirVars, sceneVars, loopVars, done, ends,
                   histVars>>

\* main() on a path that is neither a file nor a directory (lines 354-355)
MainMissing ==
    /\ UNCHANGED geomVars
    /\ pc = "idle"
    /\ runs < MaxRuns
    /\ MissingPath \notin DOMAIN files
    /\ runs' = runs + 1
    /\ ExitProcess(0)

\* main returns after process_file; an exception that escaped ends the process
\* with a traceback and a non-zero status
MainExit ==
    /\ UNCHANGED geomVars
    /\ pc = "returned"
    /\ caller = "main"
    /\ ExitProcess(IF result = "raised" THEN 1 ELSE 0)
    /\ UNCHANGED runs

(* ------------------------- process_directory -------------------------- *)

\* one iteration of the batch loop up to the call (lines 323-325)
BatchStep ==
    /\ UNCHANGED geomVars
    /\ pc = "batch"
    /\ queue # <<>>
    /\ CallProcessFile(Head(queue), "dir")
    /\ queue' = Tail(queue)
    /\ called' = Append(called, Head(queue))
    /\ UNCHANGED <<diskVars, runs, status, faults, found, processed, skipped, listing, dir0,
                   sceneVars, loopVars, done, ends, histVars>>

\* CountSkipped without the increment of the except branch (line 331)
CountSkipped_FalseOnly(r) == IF r = "false" THEN skipped + 1 ELSE skipped

\* processed += 1 (line 326)
CountProcessed(r) == IF r = "true" THEN processed + 1 ELSE processed

\* skipped += 1, on a False result (line 328) and on an exception (line 331)
CountSkipped(r) == IF r = "true" THEN skipped ELSE skipped + 1

\* BatchCollect without the except clause of line 329: an exception of
\* process_file leaves the loop and ends the process
BatchCollect_NoCatch ==
    /\ UNCHANGED geomVars
    /\ pc = "returned"
    /\ caller = "dir"
    /\ IF result = "raised"
       THEN ExitProcess(1) /\ UNCHANGED runs
       ELSE /\ processed' = CountProcessed(result)
            /\ skipped' = IF result = "true" THEN skipped ELSE skipped + 1
            /\ pc' = "batch"
            /\ UNCHANGED <<diskVars, runs, status, faults, caller, queue, found, listing, dir0,
                           called, callVars, result, sceneVars, loopVars, done, ends,
                           histVars>>

\* the rest of the iteration: the result is counted, an exception is caught
\* (lines 325-331)
BatchCollect ==
    /\ UNCHANGED geomVars
    /\ pc = "returned"
    /\ caller = "dir"
    /\ processed' = CountProcessed(result)
    /\ skipped' = CountSkipped(result)
    /\ pc' = "batch"
    /\ UNCHANGED <<diskVars, runs, status, faults, caller, queue, found, listing, dir0, called,
                   callVars, result, sceneVars, loopVars, done, ends, histVars>>

\* the loop is over: the summary is printed and main returns (lines 333-339)
BatchEnd ==
    /\ UNCHANGED geomVars
    /\ pc = "batch"
    /\ queue = <<>>
    /\ ExitProcess(0)
    /\ UNCHANGED runs

(* ----------------------- process_file: the name ----------------------- *)

\* process_file returns r (or raises, r = "raised") to main or to the batch loop
Return(r) ==
    /\ pc' = "returned"
    /\ result' = r
    /\ done' = Append(done, [path |-> file_path, result |-> r, stage |-> pc,
                             at |-> IF pc \in {"frame", "render"} THEN i ELSE 0])
    /\ complete' = IF r = "true" THEN complete \cup {model_name} ELSE complete

\* a file of fs whose name without its last extension is the digest of its
\* content (current_name and md5_hash of lines 29-31)
Canonical(fs, p) == p \in DOMAIN fs /\ Base(p) = <<Md5(fs[p])>>

\* how the name check of the current call ended on path p; canon collects the
\* canonical paths name checks have ended on
NoteEnd(p, how) ==
    /\ ends' = ends \cup {[src |-> input_path, content |-> input_content,
                           final |-> p, how |-> how]}
    /\ canon' = IF Canonical(files, p) THEN canon \cup {p} ELSE canon

\* the filesystem after the rename or delete of lines 41-57, for a file n whose
\* digest h differs from its name
ResolveFiles(fs, n, h) ==
    LET t == TargetName(n, h)
    IN  IF t \in DOMAIN fs
        THEN IF Md5(fs[t]) = h THEN Remove(fs, n)
                               ELSE Rename(fs, n, ConflictName(t))
        ELSE Rename(fs, n, t)

\* the path the call goes on with (lines 47, 53, 57)
ResolvePath(fs, n, h) ==
    LET t == TargetName(n, h)
    IN  IF t \in DOMAIN fs /\ Md5(fs[t]) # h THEN ConflictName(t) ELSE t

\* the file found at the target name with another content, if any (line 48)
Collision(fs, n, h) ==
    LET t == TargetName(n, h)
    IN  IF t \in DOMAIN fs /\ Md5(fs[t]) # h
        THEN {[path |-> t, content |-> fs[t], at |-> depth + 1]}
        ELSE {}

\* one invocation of process_file up to the end of the name check (lines 18-65)
ResolveName ==
    /\ UNCHANGED geomVars
    /\ pc = "resolve"
    /\ IF file_path \notin DOMAIN files
       THEN \* lines 25-27
            /\ Return("false")
            /\ NoteEnd(file_path, "missing")
            /\ UNCHANGED <<files, file_path, depth, muts, kept>>
       ELSE IF depth > RecursionLimit
       THEN \* the interpreter's RecursionError, raised under calculate_md5 (line 31)
            /\ Return("raised")
            /\ NoteEnd(file_path, "recursion")
            /\ UNCHANGED <<files, file_path, depth, muts, kept>>
       ELSE LET h == Md5(files[file_path])
                t == TargetName(file_path, h)
            IN  IF NameIsHash(file_path, h)
                THEN /\ pc' = "import"
                     /\ NoteEnd(file_path, "ok")
                     /\ UNCHANGED <<files, file_path, depth, muts, kept, result, done,
                                    complete>>
                ELSE /\ IF t # file_path
                        THEN /\ files' = ResolveFiles(files, file_path, h)
                             /\ file_path' = ResolvePath(files, file_path, h)
                             /\ muts' = muts + 1
                             /\ kept' = kept \cup Collision(files, file_path, h)
                        ELSE UNCHANGED <<files, file_path, muts, kept>>
                     /\ depth' = depth + 1
                     /\ UNCHANGED <<pc, result, done, ends, canon, complete>>
    /\ UNCHANGED <<frames, oks, runs, status, faults, caller, dirVars, input_path, entry, resets, imports,
                   input_content, again, sceneVars, loopVars, summary>>

\* calculate_md5(file_path) raises at line 31, outside the try: the exception
\* leaves process_file
ResolveHashError ==
    /\ UNCHANGED geomVars
    /\ pc = "resolve"
    /\ file_path \in DOMAIN files
    /\ depth <= RecursionLimit
    /\ faults < MaxFaults
    /\ faults' = faults + 1
    /\ Return("raised")
    /\ NoteEnd(file_path, "raised")
    /\ UNCHANGED <<diskVars, runs, status, caller, dirVars, callVars, sceneVars, loopVars,
                   summary>>

\* a filesystem call inside the try of lines 39-57 raises: return False (line 60)
ResolveFsError ==
    /\ UNCHANGED geomVars
    /\ pc = "resolve"
    /\ file_path \in DOMAIN files
    /\ depth <= RecursionLimit
    /\ ~NameIsHash(file_path, Md5(files[file_path]))
    /\ TargetName(file_path, Md5(files[file_path])) # file_path
    /\ faults < MaxFaults
    /\ faults' = faults + 1
    /\ Return("false")
    /\ NoteEnd(file_path, "error")
    /\ UNCHANGED <<diskVars, runs, status, caller, dirVars, callVars, sceneVars, loopVars,
                   summary>>

(* ------------------ process_file: import and scene -------------------- *)

\* what the importer can do with a file: import it, raise, leave a scene
\* without meshes, leave meshes without vertices
ImportOutcomes == {"ok", "raise", "nomesh", "novert"}

\* ext == '.glb' or ext == '.stl', ext lower-cased (lines 74-81)
FormatSupported(n) == Ext(n) # <<>> /\ Lower(Ext(n)[1]) \in {"glb", "stl"}

\* ResetScene with the reset missing: the scene is left as it is
ResetScene_Keep(sc) == sc

\* bpy.ops.wm.read_factory_settings(use_empty=True) (line 69)
ResetScene(sc) == {}

\* what the import of a file of content c adds to the scene, by outcome
\* (lines 73-78)
ImportedScene(c, outcome) ==
    CASE outcome = "ok"     -> {<<"MESH", c>>, <<"LIGHT", c>>}
      [] outcome = "novert" -> {<<"MESH", c>>}
      [] outcome = "nomesh" -> {<<"LIGHT", c>>}
      [] OTHER              -> {}

\* scene reset, import, and the checks on what was imported (lines 67-103)
ImportFile ==
    /\ UNCHANGED geomVars
    /\ pc = "import"
    /\ resets' = resets + 1
    /\ IF ~FormatSupported(file_path)
       THEN /\ scene' = ResetScene(scene)
            /\ imports' = imports
            /\ Return("false")
       ELSE \E outcome \in ImportOutcomes :
               /\ imports' = Append(imports, ResetScene(scene))
               /\ scene' = ResetScene(scene) \cup ImportedScene(files[file_path], outcome)
               /\ IF outcome = "ok"
                  THEN pc' = "setup" /\ UNCHANGED <<result, done, complete>>
                  ELSE Return("false")
    /\ pivot' = -1
    /\ evaluated' = -1
    /\ UNCHANGED <<diskVars, runs, status, faults, caller, dirVars, file_path, depth,
                   input_path, input_content, muts, kept, again, entry, loopVars, ends,
                   canon, summary>>

\* the scene after centring, pivot, camera, removal of the imported lights and
\* the three-point rig (lines 121-203)
FramedScene(sc, c) ==
    {o \in sc : o[1] # "LIGHT"}
        \cup {<<"PIVOT", c>>, <<"CAMERA", c>>,
              <<"Light_Key", c>>, <<"Light_Fill", c>>, <<"Light_Rim", c>>}

\* model_name = splitext(basename(file_path))[0] (line 253)
ModelName(n) == Base(n)

\* normalisation, camera, lights, render settings, material, renders/ and the
\* loop's initialisation (lines 105-258)
SetupScene ==
    /\ UNCHANGED geomVars
    /\ pc = "setup"
    /\ scene' = FramedScene(scene, files[file_path])
    /\ pivot' = 0
    /\ evaluated' = 0
    /\ model_name' = ModelName(file_path)
    /\ i' = 0
    /\ total_rendered' = 0
    /\ skipped_files' = 0
    /\ calls' = {}
    /\ frames0' = frames
    /\ rerun' = (ModelName(file_path) \in complete)
    /\ failed' = {}
    /\ pc' = "frame"
    /\ UNCHANGED <<diskVars, runs, status, faults, caller, dirVars, callVars, result,
                   done, ends, histVars>>

(* --------------------- process_file: render loop ---------------------- *)

\* the frames at which the renderer is made to fail: the first and the last
FaultFrames == {0, steps - 1}

\* the output path of frame k of model m
FrameFile(m, k) == FramePath(m, Angle(k))

\* the existence check looks at the next frame's path
FrameExists_OffByOne(fr, m, k) == FrameFile(m, k + 1) \in DOMAIN fr

\* the existence check replaced by a record of what this process rendered
FrameExists_ThisProcess(fr, m, k) ==
    FrameFile(m, k) \in DOMAIN fr /\ fr[FrameFile(m, k)].fresh

\* the existence check made to ask for a complete file
FrameExists_Complete(fr, m, k) ==
    FrameFile(m, k) \in DOMAIN fr /\ fr[FrameFile(m, k)].whole

\* the existence check is dropped
FrameExists_Never(fr, m, k) == FALSE

\* os.path.exists(file_path_render) (line 266)
FrameExists(fr, m, k) == FrameFile(m, k) \in DOMAIN fr

\* RotatePivot turning the pivot by one step from where it stands
RotatePivot_Relative(p, k) == IF k = 0 THEN 0 ELSE (p + Angle(1)) % FullTurn

\* pivot.rotation_euler = (0, 0, math.radians(angle)) (line 273), in degrees
RotatePivot(p, k) == Angle(k)

\* one iteration up to the render call: skip an existing frame, or rotate the
\* pivot and update the view layer (lines 260-274)
FrameStep ==
    /\ UNCHANGED geomVars
    /\ pc = "frame"
    /\ i < steps
    /\ IF FrameExists(frames, model_name, i)
       THEN /\ skipped_files' = skipped_files + 1
            /\ i' = i + 1
            /\ UNCHANGED <<pc, pivot, evaluated>>
       ELSE /\ pivot' = RotatePivot(pivot, i)
            /\ evaluated' = RotatePivot(pivot, i)
            /\ pc' = "render"
            /\ UNCHANGED <<skipped_files, i>>
    /\ UNCHANGED <<diskVars, runs, status, faults, caller, dirVars, callVars, result,
                   scene, model_name, total_rendered, calls, frames0, rerun, failed, done, ends,
                   histVars>>

\* the frame written by a render call of this process
Rendered(whole) == [fresh |-> TRUE, whole |-> whole]

\* WriteFrame for a render call that returns without saving the image
WriteFrame_Nothing(fr, p, v) == fr

\* renders/ after the renderer has written file p
WriteFrame(fr, p, v) == (p :> v) @@ fr

\* one more successful render call for path p
Counted(c, p) == (p :> (IF p \in DOMAIN c THEN c[p] + 1 ELSE 1)) @@ c

\* bpy.ops.render.render(write_still=True) succeeds (lines 276-280)
RenderFrame ==
    /\ UNCHANGED geomVars
    /\ pc = "render"
    /\ frames' = WriteFrame(frames, FrameFile(model_name, i), Rendered(TRUE))
    /\ oks' = Counted(oks, FrameFile(model_name, i))
    /\ total_rendered' = total_rendered + 1
    /\ calls' = calls \cup {i}
    /\ i' = i + 1
    /\ pc' = "frame"
    /\ UNCHANGED <<files, runs, status, faults, caller, dirVars, callVars, result,
                   sceneVars, model_name, skipped_files, frames0, rerun, failed, done, ends,
                   histVars>>

\* RenderError with the failure only logged: the loop goes on with the next
\* frame
RenderError_Continue ==
    /\ UNCHANGED geomVars
    /\ pc = "render"
    /\ i \in FaultFrames
    /\ faults < MaxFaults
    /\ faults' = faults + 1
    /\ calls' = calls \cup {i}
    /\ failed' = failed \cup {i}
    /\ \E left \in BOOLEAN :
          frames' = IF left THEN WriteFrame(frames, FrameFile(model_name, i), Rendered(FALSE))
                            ELSE frames
    /\ i' = i + 1
    /\ pc' = "frame"
    /\ UNCHANGED <<files, oks, runs, status, caller, dirVars, callVars, result, sceneVars,
                   model_name, total_rendered, skipped_files, frames0, rerun, done, ends,
                   histVars>>

\* the render call raises, having written nothing or part of the file: return
\* False (lines 281-283)
RenderError ==
    /\ UNCHANGED geomVars
    /\ pc = "render"
    /\ i \in FaultFrames
    /\ faults < MaxFaults
    /\ faults' = faults + 1
    /\ calls' = calls \cup {i}
    /\ failed' = failed \cup {i}
    /\ \E left \in BOOLEAN :
          frames' = IF left THEN WriteFrame(frames, FrameFile(model_name, i), Rendered(FALSE))
                            ELSE frames
    /\ Return("false")
    /\ UNCHANGED <<files, oks, runs, status, caller, dirVars, callVars, sceneVars,
                   model_name,
                   i, total_rendered, skipped_files, frames0, rerun, ends, canon, summary>>

\* the loop is over: the statistics are printed and True is returned (lines 285-293)
FinishFile ==
    /\ UNCHANGED geomVars
    /\ pc = "frame"
    /\ i = steps
    /\ Return("true")
    /\ UNCHANGED <<diskVars, runs, status, faults, caller, dirVars, callVars, sceneVars,
                   loopVars, ends, canon, summary>>

(* -------------------------- specification ----------------------------- *)

Next ==
    \/ MainDirectory
    \/ MainFile
    \/ MainMissing
    \/ MainExit
    \/ BatchStep
    \/ BatchCollect
    \/ BatchEnd
    \/ ResolveName
    \/ ResolveHashError
    \/ ResolveFsError
    \/ ImportFile
    \/ SetupScene
    \/ FrameStep
    \/ RenderFrame
    \/ RenderError
    \/ FinishFile

Spec == Init /\ [][Next]_vars

TypeOK ==
    /\ pc \in {"idle", "batch", "resolve", "import", "setup", "frame", "render", "returned"}
    /\ result \in {"none", "true", "false", "raised"}
    /\ i \in 0..steps
    /\ faults \in 0..MaxFaults
    /\ runs \in 0..MaxRuns

(* ------------- process_file: normalisation and framing ---------------- *)

\* target_size (line 141)
target_size == 2

\* camera.data.lens, in mm (line 159)
lens == 50

\* the sensor width used in fov, in mm (line 164)
sensor == 36

\* the factor 0.6 of line 165 and the minimum distance 3.5 of line 166
Margin == <<6, 10>>
MinDistance == <<35, 10>>

\* fractions <<numerator, denominator>> with positive denominators
RatLess(a, b) == a[1] * b[2] < b[1] * a[2]
RatMax(a, b) == IF RatLess(a, b) THEN b ELSE a

Add(u, v) == <<u[1] + v[1], u[2] + v[2]>>
Sub(u, v) == <<u[1] - v[1], u[2] - v[2]>>
SetMin(S) == CHOOSE x \in S : \A y \in S : x <= y
SetMax(S) == CHOOSE x \in S : \A y \in S : x >= y

\* the translation of obj.matrix_world: the object's location, carried by the
\* chain of its parents (parent 0: no parent, or the pivot at the origin with
\* matrix_parent_inverse = identity)
RECURSIVE World(_, _)
World(objs, k) ==
    IF objs[k].parent = 0 THEN objs[k].location
    ELSE Add(World(objs, objs[k].parent), objs[k].location)

\* all_coords: matrix_world @ v.co over all the mesh objects (lines 95-99)
AllCoords(objs) ==
    UNION {{Add(World(objs, k), v) : v \in objs[k].vertices} : k \in DOMAIN objs}

\* min_co, max_co (lines 106-111), on the axes x (across the view) and y (depth)
MinCo(cs) == <<SetMin({c[1] : c \in cs}), SetMin({c[2] : c \in cs})>>
MaxCo(cs) == <<SetMax({c[1] : c \in cs}), SetMax({c[2] : c \in cs})>>

\* center = (min_co + max_co) / 2 (line 113); the inputs are even
Center(cs) ==
    <<(MinCo(cs)[1] + MaxCo(cs)[1]) \div 2, (MinCo(cs)[2] + MaxCo(cs)[2]) \div 2>>

\* max_dim = max(size.x, size.y) with size = max_co - min_co (lines 114-115)
MaxDim(cs) == SetMax({MaxCo(cs)[1] - MinCo(cs)[1], MaxCo(cs)[2] - MinCo(cs)[2]})

\* obj.location -= center for every mesh object (lines 123-124)
Recentred(objs, c) ==
    [k \in DOMAIN objs |-> [objs[k] EXCEPT !.location = Sub(@, c)]]

\* obj.parent = pivot with matrix_parent_inverse = identity, the pivot at the
\* origin (lines 131-138)
Reparented(objs) == [k \in DOMAIN objs |-> [objs[k] EXCEPT !.parent = 0]]

\* max_dim as the camera code sees it: target_size once the pivot is scaled
\* (lines 141-152)
ScaledDim(md) == IF md > 0 THEN target_size ELSE md

\* camera_distance = max((max_dim * 0.6) / tan(fov / 2), 3.5) with
\* tan(fov / 2) = 36 / (2 * lens) (lines 164-166)
CameraDistance(md) ==
    RatMax(<<md * Margin[1] * 2 * lens, Margin[2] * sensor>>, MinDistance)

\* the vertex sets (v.co) and locations the models are built from, in even
\* numbers: a point, a bar across the view, a bar in depth, a square plan
Shapes ==
    { {<<0, 0>>},
      {<<-2, 0>>, <<2, 0>>},
      {<<0, -4>>, <<0, 4>>},
      {<<-2, -2>>, <<2, -2>>, <<-2, 2>>, <<2, 2>>} }

Locations == {<<0, 0>>, <<2, 0>>, <<0, -4>>}

\* a mesh object with no parent, or with mesh object par as its parent
Part(loc, par, vs) == [location |-> loc, parent |-> par, vertices |-> vs]

\* the imported models: one mesh object, or two, the second one either beside
\* the first or its child
Models ==
    {<<Part(l, 0, vs)>> : l \in Locations, vs \in Shapes}
        \cup {<<Part(l1, 0, v1), Part(l2, par, v2)>> :
                 l1 \in Locations, v1 \in Shapes,
                 l2 \in Locations, v2 \in Shapes, par \in {0, 1}}

\* the state outside the geometry while the normalisation is explored
MainAtRest ==
    /\ files = (H1_stl :> 1)
    /\ frames = <<>>
    /\ pc = "idle"
    /\ runs = 0
    /\ status = 0
    /\ faults = 0
    /\ FreshProcess
    /\ canon = {}
    /\ complete = {}
    /\ summary = NoSummary
    /\ oks = <<>>

\* a model has been imported (mesh_objects of line 88)
SceneInit ==
    /\ MainAtRest
    /\ gpc = "imported"
    /\ mesh_objects \in Models
    /\ all_coords = {}
    /\ center = <<0, 0>>
    /\ max_dim = 0
    /\ camera_distance = <<0, 1>>
    /\ prev = NoFraming

\* bounding box, centre, recentring and re-parenting to the pivot (lines 94-138)
NormalizeScene ==
    /\ gpc = "imported"
    /\ all_coords' = AllCoords(mesh_objects)
    /\ center' = Center(AllCoords(mesh_objects))
    /\ max_dim' = MaxDim(AllCoords(mesh_objects))
    /\ mesh_objects' = Reparented(Recentred(mesh_objects, Center(AllCoords(mesh_objects))))
    /\ gpc' = "normalized"
    /\ UNCHANGED <<mainVars, camera_distance, prev>>

\* the pivot is scaled and the camera placed (lines 141-170)
FrameCamera ==
    /\ gpc = "normalized"
    /\ camera_distance' = CameraDistance(ScaledDim(max_dim))
    /\ gpc' = "framed"
    /\ UNCHANGED <<mainVars, mesh_objects, all_coords, center, max_dim, prev>>

\* the next model is imported into the emptied scene
LoadModel ==
    /\ gpc = "framed"
    /\ prev' = [max_dim |-> max_dim, camera_distance |-> camera_distance]
    /\ mesh_objects' \in Models
    /\ all_coords' = {}
    /\ center' = <<0, 0>>
    /\ max_dim' = 0
    /\ camera_distance' = <<0, 1>>
    /\ gpc' = "imported"
    /\ UNCHANGED mainVars

SceneNext ==
    \/ NormalizeScene
    \/ FrameCamera
    \/ LoadModel

SceneSpec == SceneInit /\ [][SceneNext]_vars

(* ------------------------------ claims -------------------------------- *)

\* the last finished process_file call of this run
LastDone == done[Len(done)]

\* the current process_file call is in its render loop, or has just returned from it
InLoopCall ==
    \/ pc \in {"frame", "render"}
    \/ pc = "returned" /\ LastDone.stage \in {"frame", "render"}

\* the frame indices the loop of the current call has dealt with
Handled ==
    IF pc = "returned" /\ LastDone.stage = "render" THEN 0..i ELSE 0..(i - 1)

\* C1: when process_file runs on a model it has rendered to success before, on
\* the same renders/, it issues no render call (total_rendered = 0), leaves
\* renders/ as it found it, and returns True with skipped_files = 36.
C1_TurntableIdempotence ==
    (rerun /\ InLoopCall) =>
        /\ calls = {}
        /\ total_rendered = 0
        /\ pc # "render"
        /\ frames = frames0
        /\ (pc = "returned" => result = "true" /\ skipped_files = steps)

\* C1 witness: a second program run has finished the loop of a model rendered before
C1_Witness ==
    /\ rerun
    /\ runs = 2
    /\ pc = "returned"
    /\ result = "true"
    /\ skipped_files = steps
    /\ total_rendered = 0

\* C2: in the render loop a render call is issued for frame k exactly when the
\* frame's path did not exist when it was checked; a frame file that existed
\* before the loop is never rewritten, and is counted in skipped_files.
\* (What the loop did is read off its history when it is left.)
C2_SkipIfExists ==
    /\ (pc = "render") =>
          /\ <<model_name, Pad3(Angle(i)), "png">> \notin DOMAIN frames
          /\ i \notin calls
    /\ (pc = "returned" /\ LastDone.stage \in {"frame", "render"}) =>
          /\ \A k \in Handled :
                (k \in calls) <=>
                    (<<model_name, Pad3(Angle(k)), "png">> \notin DOMAIN frames0)
          /\ \A p \in DOMAIN frames0 : p \in DOMAIN frames /\ frames[p] = frames0[p]
          /\ skipped_files = Cardinality(Handled \ calls)
          /\ total_rendered + skipped_files <= steps

\* C2 witness: a loop that skipped the two frames found and rendered the other 34
C2_Witness ==
    /\ pc = "returned"
    /\ result = "true"
    /\ skipped_files = 2
    /\ total_rendered = steps - 2
    /\ calls = (0..(steps - 1)) \ {1, steps - 1}

\* H_000.png, H_010.png, ..., H_350.png
ExpectedFrames(H) ==
    { <<H, <<a \div 100, (a \div 10) % 10, a % 10>>, "png">> :
         a \in {10 * k : k \in 0..35} }

\* C3: when process_file returns True for a model of hash H, renders/ holds
\* exactly the 36 frames H_000.png .. H_350.png for H; the angles are 10*k,
\* distinct and in [0, 360); distinct (H, angle) pairs have distinct paths.
C3_OutputLayout ==
    /\ (pc = "returned" /\ result = "true") =>
          /\ model_name = <<Md5(files[file_path])>>
          /\ {p \in DOMAIN frames : p[1] = model_name} = ExpectedFrames(model_name)
          /\ Cardinality({p \in DOMAIN frames : p[1] = model_name}) = 36
    /\ (pc = "frame" /\ i = 0) =>
          /\ \A k \in 0..35 : Angle(k) = 10 * k /\ Angle(k) >= 0 /\ Angle(k) < 360
          /\ Cardinality({Angle(k) : k \in 0..35}) = 36
          /\ Cardinality({FramePath(m, Angle(k)) : m \in complete \cup {model_name},
                                                  k \in 0..35})
                = 36 * Cardinality(complete \cup {model_name})

\* C3 witness: a model with no frame at the start has been rendered in full
C3_Witness ==
    /\ pc = "returned"
    /\ result = "true"
    /\ total_rendered = steps
    /\ model_name = <<Md5(2)>>
    /\ Cardinality(DOMAIN frames) >= steps

\* the name check of the current call is over: the call went on to the import,
\* or left process_file from lines 25-65
NameCheckLeft ==
    \/ pc = "import"
    \/ pc = "returned" /\ LastDone.stage = "resolve"

\* C4: every exit path of the name check of process_file leaves the file it
\* ends on with a base name equal to the hash of its content (stated here for
\* the runs in which no filesystem call has failed).
C4_NameResolved ==
    (faults = 0 /\ NameCheckLeft /\ file_path \in DOMAIN files) =>
        Canonical(files, file_path)

\* C5: a name check applied to a path P on which an earlier name check ended
\* makes no rename and no delete, needs no recursion and ends on P: it goes on
\* to the import of P, unless the read of P for its digest fails.
C5_ResolveIdempotent ==
    (again /\ pc \notin {"idle", "batch"}) =>
        /\ muts = 0
        /\ depth = 1
        /\ kept = {}
        /\ file_path = input_path
        /\ input_path \in DOMAIN files
        /\ files[input_path] = input_content
        /\ NameCheckLeft =>
              \/ pc = "import"
              \/ result = "raised" /\ faults > 0

\* C5 witness: model.stl has become <hash>.stl in a first run, and a second
\* run on <hash>.stl has passed the name check without a rename.
C5_Witness ==
    /\ again
    /\ runs = 2
    /\ pc = "import"
    /\ file_path = H1_stl
    /\ A_stl \notin DOMAIN files
    /\ muts = 0

\* the pairs of name checks of this run that started from two different names
\* of one content and both went on to the import
DedupPairs ==
    {pr \in ends \X ends : /\ pr[1].src # pr[2].src
                            /\ pr[1].content = pr[2].content
                            /\ pr[1].how = "ok" /\ pr[2].how = "ok"}

\* the files that hold content c
Holding(c) == {p \in DOMAIN files : files[p] = c}

\* C6: for every pair of byte-identical files under two different
\* names, once both have been name-checked exactly one file with that content
\* remains and both checks ended on it.
C6_DedupAllPairs ==
    \A pr \in DedupPairs :
        /\ pr[1].final = pr[2].final
        /\ Holding(pr[1].content) = {pr[1].final}

\* C7: when the target name <hash><ext> is held by a file of another content,
\* the source is renamed to <hash><ext>.new and the check recurses on that
\* path; the file found at <hash><ext> keeps its name and its content for the
\* rest of the call.
C7_CollisionKeepsExisting ==
    \A k \in kept :
        /\ k.path \in DOMAIN files
        /\ files[k.path] = k.content
        /\ Md5(k.content) # Md5(input_content)
        /\ depth = k.at =>
              /\ file_path = k.path \o <<"new">>
              /\ file_path \in DOMAIN files
              /\ files[file_path] = input_content

\* C7 witness: a.stl (digest h1) met h1.stl of another content; it is now
\* h1.stl.new, about to be checked again, and h1.stl is as it was.
C7_Witness ==
    /\ pc = "resolve"
    /\ depth = 2
    /\ input_path = A_stl
    /\ file_path = H1_stl_new
    /\ kept = {[path |-> H1_stl, content |-> 2, at |-> 2]}
    /\ files = (H1_stl :> 2) @@ (H1_stl_new :> 1)

\* C8: in process_directory, process_file is called once for every enumerated
\* file, in the order of the listing, also after a call that returned False or
\* raised; no exception leaves the loop: the process ends only after the last
\* file, with the summary and status 0.
C8_BatchIsolation ==
    /\ (caller = "dir") =>
          /\ called \o queue = listing
          /\ Len(listing) = found
          /\ Len(done) \in {Len(called) - 1, Len(called)}
          /\ Len(done) = Len(called) - 1 <=> pc \notin {"batch", "returned"}
    /\ summary.dir =>
          /\ summary.called = summary.found
          /\ summary.processed + summary.skipped = summary.called
          /\ pc = "idle" => status = 0

\* C8 witness: the first of two files raised, and the second has been
\* processed after it.
C8_Witness ==
    /\ caller = "dir"
    /\ pc = "batch"
    /\ queue = <<>>
    /\ Len(done) = 2
    /\ done[1].result = "raised"
    /\ done[2].result = "true"
    /\ Len(called) = 2

\* the calls of this batch that returned True
Succeeded == {k \in 1..Len(done) : done[k].result = "true"}

\* C9: at the end of process_directory processed is the number of files whose
\* call returned True, skipped the number of those that returned False or
\* raised, their sum the number of files found, and every file that succeeded
\* has its 36 frames in renders/.
C9_BatchAccounting ==
    /\ (caller = "dir" /\ pc = "batch") =>
          /\ processed = Cardinality(Succeeded)
          /\ skipped = Len(done) - Cardinality(Succeeded)
    /\ (caller = "dir" /\ pc = "batch" /\ queue = <<>>) =>
          /\ processed + skipped = found
          /\ \A k \in Succeeded : \A j \in 0..(steps - 1) :
                FrameFile(ModelName(done[k].path), j) \in DOMAIN frames
    /\ summary.dir => summary.processed + summary.skipped = summary.found

\* C9 witness: a .glb whose import fails and a valid .stl: 1 processed,
\* 1 failed, whichever comes first.
C9_Witness ==
    /\ caller = "dir"
    /\ pc = "batch"
    /\ queue = <<>>
    /\ found = 2
    /\ processed = 1
    /\ skipped = 1
    /\ done[1].result = "false" /\ done[1].stage = "import"
    /\ Ext(listing[1]) = <<"GLB">>
    /\ done[2].result = "true"

\* C10: when the render call raises at frame i, process_file returns False at
\* once: no render call is made for a later frame in that call, the frames
\* 0..i-1 are on disk (those rendered in this call complete), and in a batch
\* the loop goes on to the files that follow.
C10_RenderFailureFatalForModel ==
    /\ (InLoopCall /\ failed # {}) =>
          /\ pc = "returned"
          /\ result = "false"
          /\ LastDone.stage = "render"
          /\ failed = {i}
          /\ calls \subseteq 0..i
          /\ total_rendered = Cardinality(calls) - 1
          /\ \A k \in 0..(i - 1) : FrameFile(model_name, k) \in DOMAIN frames
          /\ \A k \in calls \ {i} : frames[FrameFile(model_name, k)] = Rendered(TRUE)
    /\ (caller = "dir" /\ pc = "batch" /\ queue = <<>>) =>
          /\ Len(done) = found
          /\ \A k \in 1..Len(done) : done[k].stage = "render" => done[k].result = "false"

\* C10 witness: in a batch of two the render of the first model failed at
\* its last frame, its earlier frames are on disk, and the second model was
\* rendered after it.
C10_Witness ==
    /\ caller = "dir"
    /\ pc = "batch"
    /\ queue = <<>>
    /\ Len(done) = 2
    /\ done[1].stage = "render" /\ done[1].at = steps - 1 /\ done[1].result = "false"
    /\ \A k \in 0..(steps - 2) : FrameFile(ModelName(done[1].path), k) \in DOMAIN frames
    /\ done[2].result = "true"
    /\ processed = 1 /\ skipped = 1

\* the frames of the current model that were on disk and complete when the
\* render loop of the current call began
Completed0 ==
    {k \in 0..(steps - 1) : /\ FrameFile(model_name, k) \in DOMAIN frames0
                            /\ frames0[FrameFile(model_name, k)].whole}

\* C11: over the runs on one renders/ directory, some cut short by a render
\* failure, no frame is rendered to success more than once, every frame so
\* rendered stays on disk, and a call that found k completed frames issues
\* render calls only for frames among the other 36-k.
C11_Resumability ==
    /\ (pc \in {"idle", "returned"}) =>
          \A p \in DOMAIN oks :
              /\ oks[p] <= 1
              /\ p \in DOMAIN frames
              /\ frames[p].whole
    /\ (pc = "render") => FrameFile(model_name, i) \notin DOMAIN oks
    /\ (pc = "returned" /\ LastDone.stage \in {"frame", "render"}) =>
          /\ calls \cap Completed0 = {}
          /\ Cardinality(calls) <= steps - Cardinality(Completed0)
          /\ result = "true" =>
                Cardinality(calls) + skipped_files = steps

\* C11 witness: a first run rendered frames 0..34 and failed at the last
\* frame; the second run has rendered that frame alone and returned True.
C11_Witness ==
    /\ runs = 2
    /\ pc = "returned"
    /\ result = "true"
    /\ calls = {steps - 1}
    /\ skipped_files = steps - 1
    /\ Cardinality(Completed0) = steps - 1
    /\ Cardinality(DOMAIN oks) = steps
    /\ \A p \in DOMAIN oks : oks[p] = 1

\* C12: the recursion of the name check reaches a terminal state after finitely
\* many renames and deletes: no level of it finds a name that is not the
\* digest and leaves both the directory and the path as they were, and no call
\* ends in the interpreter's RecursionError.
C12_ResolveTerminates ==
    /\ (pc = "resolve" /\ file_path \in DOMAIN files /\ ~Canonical(files, file_path)) =>
          ~ /\ ResolveFiles(files, file_path, Md5(files[file_path])) = files
            /\ ResolvePath(files, file_path, Md5(files[file_path])) = file_path
    /\ \A e \in ends : e.how # "recursion"

\* the current call was ended in its name check by a filesystem error
NameCheckFailed ==
    /\ pc = "returned"
    /\ LastDone.stage = "resolve"
    /\ \E e \in ends : /\ e.src = input_path
                        /\ e.final = file_path
                        /\ e.how \in {"raised", "error"}

\* C13: a filesystem error while hashing, renaming or deleting in the name
\* check makes process_file return False (no exception leaves it), with the
\* scene not reset, nothing imported and no frame written for that file.
C13_NameCheckFailureReturnsFalse ==
    NameCheckFailed =>
        /\ result = "false"
        /\ resets = 0
        /\ imports = <<>>
        /\ frames = entry.frames

\* C14: process_file on an existing file whose extension is neither .glb nor
\* .stl returns False before anything else has an effect: no rename or delete,
\* no scene reset, no import call, no frame written.
C14_UnsupportedFailsFirst ==
    (/\ pc = "returned"
     /\ faults = 0
     /\ input_path \in DOMAIN entry.files
     /\ ~FormatSupported(input_path)) =>
        /\ result = "false"
        /\ files = entry.files
        /\ resets = 0
        /\ imports = <<>>
        /\ frames = entry.frames

\* the objects process_file creates for a file of content c: its meshes, the
\* pivot, the camera and the three lights
OwnObjects(c) ==
    {<<"MESH", c>>, <<"PIVOT", c>>, <<"CAMERA", c>>,
     <<"Light_Key", c>>, <<"Light_Fill", c>>, <<"Light_Rim", c>>}

C16_BatchExitStatus ==
    (pc = "idle" /\ summary.dir) =>
        /\ summary.called = summary.found
        /\ summary.skipped = 0 => status = 0
        /\ summary.skipped > 0 => status # 0

\* the world-space vertices of the model as it stands
Placed == AllCoords(mesh_objects)

\* C17: for every non-empty vertex set over one or more mesh objects, children
\* of other mesh objects included, the centre lies within the bounding box and
\* after the recentring and the re-parenting the bounding box of the geometry
\* has min = -max on every axis.
C17_NormalizedSymmetric ==
    (gpc \in {"normalized", "framed"}) =>
        /\ \A a \in 1..2 : /\ MinCo(all_coords)[a] <= center[a]
                           /\ center[a] <= MaxCo(all_coords)[a]
        /\ \A a \in 1..2 : MinCo(Placed)[a] = -MaxCo(Placed)[a]

\* a vertex c of the recentred model, rescaled by target_size / md, is inside
\* the horizontal field of view of the camera at (0, -dist, 0) looking along
\* +y: |x| <= (y + dist) * tan(fov / 2), before any rotation of the pivot
InView(c, md, dist) ==
    LET x == IF c[1] < 0 THEN -c[1] ELSE c[1]
    IN  IF md > 0
        THEN x * target_size * 2 * lens * dist[2]
                <= sensor * (c[2] * target_size * dist[2] + dist[1] * md)
        ELSE x * 2 * lens * dist[2] <= sensor * (c[2] * dist[2] + dist[1])

\* C18: for models with max_dim > 0 the camera distance strictly increases
\* with max_dim, the model's extent at that distance subtends less than the
\* field of view, and no vertex of the model is outside the view.
C18_CameraFraming ==
    (gpc = "framed" /\ max_dim > 0) =>
        /\ (prev.max_dim > 0 /\ prev.max_dim < max_dim) =>
              RatLess(prev.camera_distance, camera_distance)
        /\ ScaledDim(max_dim) * lens * camera_distance[2] < sensor * camera_distance[1]
        /\ \A c \in Placed : InView(c, max_dim, camera_distance)

\* C19: at every render call the pivot stands at the angle the output file
\* name encodes and the view layer has been updated to it, whatever frames were
\* skipped before.
C19_RenderStepOrdering ==
    (pc = "render") =>
        /\ pivot = Angle(i)
        /\ evaluated = pivot
        /\ FrameFile(model_name, i) = <<model_name, Pad3(pivot), "png">>
        /\ pivot = 10 * i

\* C19 witness: frame 0 was rendered, frame 1 was found on disk and skipped,
\* and the render call for frame 2 is about to be made at 20 degrees.
C19_Witness ==
    /\ pc = "render"
    /\ i = 2
    /\ calls = {0}
    /\ skipped_files = 1
    /\ pivot = 20
    /\ evaluated = 20

\* the frames of the current model that were on disk, left incomplete by a
\* failed render call, when the render loop of the current call began
Partial0 ==
    {k \in 0..(steps - 1) : /\ FrameFile(model_name, k) \in DOMAIN frames0
                            /\ ~frames0[FrameFile(model_name, k)].whole}

\* C20: a file left at a frame's path by a failed render call is taken for a
\* rendered frame by every later call: the frame is counted as skipped, no
\* render call is made for it, the file stays as it is, and the call can still
\* return True.
C20_PartialFrameSkipped ==
    (pc = "returned" /\ LastDone.stage \in {"frame", "render"}) =>
        \A k \in Partial0 :
            /\ k \in Handled => k \notin calls
            /\ frames[FrameFile(model_name, k)] = frames0[FrameFile(model_name, k)]
            /\ result = "true" => skipped_files >= Cardinality(Partial0)

\* C20 witness: the first run failed at frame 0 and left a partial file; the
\* second run has skipped it, rendered the rest and returned True.
C20_Witness ==
    /\ runs = 2
    /\ pc = "returned"
    /\ result = "true"
    /\ Partial0 = {0}
    /\ 0 \notin calls
    /\ total_rendered > 0
    /\ ~frames[FrameFile(model_name, 0)].whole
    /\ model_name \in complete

\* C21: on every path through the name check the file process_file goes on
\* with is named <hash><original extension>: a file that came in with a
\* supported extension has it at the import and is found by a later listing.
C21_ExtensionPreserved ==
    (pc = "import") =>
        /\ file_path = <<Md5(input_content)>> \o Ext(input_path)
        /\ Supported(input_path) =>
              /\ FormatSupported(file_path)
              /\ file_path \in SupportedFiles

\* the contents a directory holds
Contents(fs) == {fs[p] : p \in DOMAIN fs}

\* C22: during a call of process_file every content the directory held at the
\* call is still held under some name, and no path that held a file at the
\* call holds another content now (no rename has landed on an existing file).
C22_NoContentLoss ==
    (pc \notin {"idle", "batch"}) =>
        /\ Contents(entry.files) \subseteq Contents(files)
        /\ \A p \in DOMAIN entry.files \cap DOMAIN files : files[p] = entry.files[p]

\* the directory after the name check of process_file(n) entered at recursion
\* depth d, when no I/O error interferes (lines 25-65)
RECURSIVE ResolveFrom(_, _, _)
ResolveFrom(fs, n, d) ==
    IF n \notin DOMAIN fs \/ d > RecursionLimit
    THEN fs
    ELSE LET h == Md5(fs[n])
         IN  IF NameIsHash(n, h)
             THEN fs
             ELSE IF TargetName(n, h) # n
                  THEN ResolveFrom(ResolveFiles(fs, n, h), ResolvePath(fs, n, h), d + 1)
                  ELSE ResolveFrom(fs, n, d + 1)

\* the directory after the loop of process_directory has called process_file
\* on the files of order, one after the other (lines 323-331)
RECURSIVE BatchFiles(_, _)
BatchFiles(fs, order) ==
    IF order = <<>>
    THEN fs
    ELSE BatchFiles(ResolveFrom(fs, Head(order), 1), Tail(order))

\* the batch loop is over and no name check of it met an I/O error
BatchOver ==
    /\ pc = "batch"
    /\ queue = <<>>
    /\ \A e \in ends : e.how \in {"ok", "missing", "recursion"}

\* C23: the model files a batch leaves (names and contents) are the ones every
\* other enumeration order of the same listing would have left.
C23_OrderIndependence ==
    BatchOver =>
        \A o \in Perms({listing[k] : k \in DOMAIN listing}) : BatchFiles(dir0, o) = files

\* the 36 frame files of the model of hash H are in renders/
FrameSet(H) == \A k \in 0..(steps - 1) : FrameFile(<<H>>, k) \in DOMAIN frames

\* C24: when process_file returns True, and when the batch loop has counted
\* that call as processed, the 36 frames of the model's hash are in renders/
\* and total_rendered + skipped_files = 36; a call that returns with fewer than
\* 36 of them in renders/ returns False.
C24_SuccessImpliesComplete ==
    /\ (pc = "returned" /\ result = "true") =>
          /\ FrameSet(Md5(input_content))
          /\ model_name = <<Md5(input_content)>>
          /\ total_rendered + skipped_files = steps
    /\ (pc = "returned" /\ result # "raised" /\ ~FrameSet(Md5(input_content))) =>
          result = "false"
    /\ (pc = "batch" /\ done # <<>> /\ LastDone.result = "true") =>
          /\ processed >= 1
          /\ FrameSet(Md5(input_content))

\* C24 witness: a batch has counted a file whose loop rendered some frames and
\* skipped the others, and the 36 frames are there
C24_Witness ==
    /\ pc = "batch"
    /\ done # <<>>
    /\ LastDone.result = "true"
    /\ processed = 1
    /\ total_rendered > 0
    /\ skipped_files > 0
    /\ total_rendered + skipped_files = steps
    /\ FrameSet(Md5(input_content))

====
